---- MODULE Spec2Model ----
(***************************************************************************)
(* The timezone-aware reminders engine of app.js (the cron.schedule        *)
(* callback, app.js 304-334) together with the Firestore documents it      *)
(* reads and the chat.postMessage calls it starts.                         *)
(*                                                                         *)
(* Instants are whole minutes; instant 0 is a Monday, 00:00 UTC.           *)
(* One action is one run of the callback between two awaits.               *)
(***************************************************************************)
EXTENDS Integers, Sequences, FiniteSets, TLC

\* ------------------------------------------------------------------ bounds
MaxTicks == 2       \* minutes that pass, and so cron firings, in one behaviour
MaxRems == 2        \* reminder documents in the store, all users together
MaxFailures == 1    \* store reads and sends that fail in one behaviour
MaxDocs == 2        \* documents the command handlers add in one behaviour

\* ------------------------------------------------------------ value spaces
Users == {"U1", "U2"}
\* collection.get() returns documents ordered by document id
UserOrder == <<"U1", "U2">>
Null == "null"
Zones == {"UTC", "America/New_York"}
\* the timezone field of a user document at the start: absent, or a zone name
StoredZones == {Null, "America/New_York"}
DayNames == <<"Monday", "Tuesday", "Wednesday", "Thursday", "Friday", "Saturday", "Sunday">>
MinutesPerDay == 24 * 60

\* Where the clock starts: the minute before Tue 00:00 UTC (Mon 20:00 in New
\* York) and the minute before Tue 20:00 UTC, so that the first cron firing
\* is on time for a "20:00" reminder in one of the zones.
StartInstants == {MinutesPerDay - 1, MinutesPerDay + 20 * 60 - 1}

\* The records setup_reminder_view can write, by document id: a weekly one
\* always has a day, a daily one keeps whatever the optional day select held.
ReminderForms ==
    << [text |-> "standup", frequency |-> "daily",  day |-> Null,     time |-> "20:00"],
       [text |-> "pills",   frequency |-> "daily",  day |-> "Monday", time |-> "20:00"],
       [text |-> "report",  frequency |-> "weekly", day |-> "Monday", time |-> "20:00"] >>

\* ------------------------------------------------------------------- state
VARIABLES
    clock,      \* the instant new Date() returns
    alive,      \* the node process is running
    userDocs,   \* artifacts/{appId}/users/{u}: [exists, timezone]
    reminders,  \* artifacts/{appId}/users/{u}/reminders: set of [id, text, frequency, day, time]
    tick,       \* per cron firing: the callback's position and its locals
    started,    \* number of cron firings so far
    sends,      \* chat.postMessage calls: [tick, user, k, rem, text, status], k-th call of that forEach
    evals,      \* history: what each tick computed for each user it evaluated
    log,        \* console.error('Cron Error:', e) lines: [tick, at, user, rem]
    failures,   \* number of store reads and sends that have failed
    cols,       \* artifacts/{appId}/users/{u}/{tasks, vault, ...}: sets of [id, text]
    buttons,    \* buttons posted to a user: [user, action_id, col, id, label]
    nextId,     \* the document id the next add() draws
    ack,        \* the answer to the latest Slack request: [response_action, errors]
    version,    \* which of the two programs of app.js runs: 1 (lines 1-257) or 2 (258-590)
    views       \* the users a reminder form is open for (views.open resolved)

\* what the command handlers alone touch, and what the sweep alone touches
cmdVars == <<cols, buttons, nextId, ack, version, views>>
sweepVars == <<clock, alive, tick, started, sends, evals, log, failures>>
vars == <<clock, alive, userDocs, reminders, tick, started, sends, evals, log, failures,
          cols, buttons, nextId, ack, version, views>>

TickIds == 1..MaxTicks

\* --------------------------------------------------- Intl date formatting
TzOffset(tz) == CASE tz = "UTC" -> 0
                  [] tz = "America/New_York" -> -(4 * 60)

Digit == <<"0", "1", "2", "3", "4", "5", "6", "7", "8", "9">>
Pad2(n) == Digit[(n \div 10) + 1] \o Digit[(n % 10) + 1]

\* now.toLocaleTimeString('en-GB', {timeZone, hour: '2-digit', minute: '2-digit', hour12: false})
toLocaleTimeString(now, tz) ==
    LET m == (now + TzOffset(tz)) % MinutesPerDay
    IN  Pad2(m \div 60) \o ":" \o Pad2(m % 60)

\* now.toLocaleDateString('en-US', {timeZone, weekday: 'long'})
toLocaleDateString(now, tz) ==
    DayNames[(((now + TzOffset(tz)) \div MinutesPerDay) % 7) + 1]

\* ------------------------------------------------------- the cron callback
UserTz_defaultLocal(userData) ==
    IF userData.timezone = Null THEN "America/New_York" ELSE userData.timezone
\* userData.timezone || 'UTC'
UserTz(userData) == IF userData.timezone = Null THEN "UTC" ELSE userData.timezone

UserTimeString(now, userTz) == toLocaleTimeString(now, userTz)

UserDay_utc(now, userTz) == toLocaleDateString(now, "UTC")
UserDay(now, userTz) == toLocaleDateString(now, userTz)

shouldFire_dailyOnDay(data, userTimeString, userDay) ==
    data.day \in {Null, userDay} /\ data.time = userTimeString
shouldFire_weeklyAnyDay(data, userTimeString, userDay) ==
    data.frequency \in {"daily", "weekly"} /\ data.time = userTimeString
shouldFire(data, userTimeString, userDay) ==
    \/ (data.frequency = "daily" /\ data.time = userTimeString)
    \/ (data.frequency = "weekly" /\ data.day = userDay /\ data.time = userTimeString)

RECURSIVE DocsInOrder(_)
DocsInOrder(S) ==
    IF S = {} THEN <<>>
    ELSE LET d == CHOOSE x \in S : \A y \in S : x.id <= y.id
         IN  <<d>> \o DocsInOrder(S \ {d})

\* usersSnapshot.docs: the user documents that exist, in id order
UsersSnapshot ==
    LET Ex == SelectSeq(UserOrder, LAMBDA u : userDocs[u].exists)
    IN  [i \in 1..Len(Ex) |-> [id |-> Ex[i], timezone |-> userDocs[Ex[i]].timezone]]

Idle == [pc |-> "idle", docs |-> <<>>, idx |-> 0, now |-> 0,
         userTz |-> Null, userTimeString |-> Null, userDay |-> Null]
\* the callback has returned: after the loop, or through catch (e) from
\* iteration i (0: from the users listing)
Done == [Idle EXCEPT !.pc = "done"]
Caught(i) == [Idle EXCEPT !.pc = "caught", !.idx = i]

\* console.error('Cron Error:', e), e thrown by the awaited call `at`
CronError(t, at, u) == [tick |-> t, at |-> at, user |-> u, rem |-> 0]

LoopHead_lookBack(docs, i) ==
    IF i > Len(docs) THEN Done
    ELSE IF UserTz(docs[i]) \notin Zones THEN Caught(i)
    ELSE LET userTz == UserTz(docs[i])
             now == clock - 1
         IN  [pc |-> "reading", docs |-> docs, idx |-> i, now |-> now,
              userTz |-> userTz,
              userTimeString |-> UserTimeString(now, userTz),
              userDay |-> UserDay(now, userTz)]
RECURSIVE LoopHead_skipUser(_, _)
LoopHead_skipUser(docs, i) ==
    IF i > Len(docs) THEN Done
    ELSE IF UserTz(docs[i]) \notin Zones THEN LoopHead_skipUser(docs, i + 1)
    ELSE LET userTz == UserTz(docs[i])
             now == clock
         IN  [pc |-> "reading", docs |-> docs, idx |-> i, now |-> now,
              userTz |-> userTz,
              userTimeString |-> UserTimeString(now, userTz),
              userDay |-> UserDay(now, userTz)]
\* The head of one loop iteration, up to the awaited reminders read. With a
\* timeZone Intl cannot resolve, toLocaleTimeString throws a RangeError and
\* catch (e) ends the callback.
LoopHead(docs, i) ==
    IF i > Len(docs) THEN Done
    ELSE IF UserTz(docs[i]) \notin Zones THEN Caught(i)
    ELSE LET userData == docs[i]
             userTz == UserTz(userData)
             now == clock
         IN  [pc |-> "reading", docs |-> docs, idx |-> i, now |-> now,
              userTz |-> userTz,
              userTimeString |-> UserTimeString(now, userTz),
              userDay |-> UserDay(now, userTz)]

\* console.error('Cron Error:', e) for the RangeError of iteration i, if it throws
RangeErrors(t, docs, i) ==
    IF i <= Len(docs) /\ UserTz(docs[i]) \notin Zones
    THEN {CronError(t, "toLocaleTimeString", docs[i].id)}
    ELSE {}

\* reminders.forEach(async (rem) => ...): the data of the reminders it calls
\* postMessage for, in call order
RECURSIVE Fired(_, _, _)
Fired(rems, userTimeString, userDay) ==
    IF rems = <<>> THEN <<>>
    ELSE LET data == Head(rems)
             rest == Fired(Tail(rems), userTimeString, userDay)
         IN  IF shouldFire(data, userTimeString, userDay) THEN <<data>> \o rest ELSE rest

\* text: `<alarm clock emoji> *Reminder:* ${data.text}`
MessageText(data) == "*Reminder:* " \o data.text

ForEach_twice(t, u, rems, userTimeString, userDay) ==
    LET f == Fired(rems, userTimeString, userDay)
        ff == f \o f
    IN  { [tick |-> t, user |-> u, k |-> k, rem |-> ff[k].id, text |-> MessageText(ff[k]),
           status |-> "inflight"] : k \in 1..Len(ff) }
ForEach_toFirstUser(t, u, rems, userTimeString, userDay) ==
    LET f == Fired(rems, userTimeString, userDay)
    IN  { [tick |-> t, user |-> UserOrder[1], k |-> k, rem |-> f[k].id,
           text |-> MessageText(f[k]), status |-> "inflight"] : k \in 1..Len(f) }
ForEach_oncePerReminder(t, u, rems, userTimeString, userDay) ==
    LET f == Fired(rems, userTimeString, userDay)
    IN  { c \in { [tick |-> t, user |-> u, k |-> k, rem |-> f[k].id,
                   text |-> MessageText(f[k]), status |-> "inflight"] : k \in 1..Len(f) } :
            \A s \in sends : ~(s.user = u /\ s.rem = c.rem) }
ForEach_awaited(t, u, rems, userTimeString, userDay) ==
    LET f == Fired(rems, userTimeString, userDay)
    IN  { [tick |-> t, user |-> u, k |-> k, rem |-> f[k].id, text |-> MessageText(f[k]),
           status |-> "ok"] : k \in 1..Len(f) }
\* channel: userDoc.id
ForEach(t, u, rems, userTimeString, userDay) ==
    LET f == Fired(rems, userTimeString, userDay)
    IN  { [tick |-> t, user |-> u, k |-> k, rem |-> f[k].id, text |-> MessageText(f[k]),
           status |-> "inflight"] : k \in 1..Len(f) }

\* A reminders collection holding the documents with the given ids
Collection(ids) ==
    { [id |-> i, text |-> ReminderForms[i].text, frequency |-> ReminderForms[i].frequency,
       day |-> ReminderForms[i].day, time |-> ReminderForms[i].time] : i \in ids }

\* No command has run yet; the sweep is part of the second program
ColNames == {"tasks", "vault", "habits", "parking_lot", "logs"}
NoAck == [response_action |-> Null, errors |-> Null]
NoCommands ==
    /\ cols = [u \in Users |-> [c \in ColNames |-> {}]]
    /\ buttons = {}
    /\ nextId = 1
    /\ ack = NoAck
    /\ version = 2
    /\ views = {}

\* --------------------------------------------------------------- actions
Init ==
    /\ clock \in StartInstants
    /\ alive = TRUE
    /\ userDocs \in [Users -> {[exists |-> FALSE, timezone |-> Null]}
                              \cup [exists : {TRUE}, timezone : StoredZones]]
    /\ \E ids \in [Users -> SUBSET DOMAIN ReminderForms] :
          /\ Cardinality(ids[UserOrder[1]]) + Cardinality(ids[UserOrder[2]]) <= MaxRems
          /\ reminders = [u \in Users |-> Collection(ids[u])]
    /\ tick = [t \in TickIds |-> Idle]
    /\ started = 0
    /\ sends = {}
    /\ evals = {}
    /\ log = {}
    /\ failures = 0
    /\ NoCommands

\* the minute changes: node-cron runs the callback, which awaits the users listing
CronFire ==
    /\ alive
    /\ started < MaxTicks
    /\ clock' = clock + 1
    /\ started' = started + 1
    /\ tick' = [tick EXCEPT ![started + 1].pc = "listing"]
    /\ UNCHANGED <<alive, userDocs, reminders, sends, evals, log, failures>>
    /\ UNCHANGED cmdVars

\* the users listing resolves; the loop runs to the first reminders read
UsersGetOk(t) ==
    /\ alive
    /\ tick[t].pc = "listing"
    /\ tick' = [tick EXCEPT ![t] = LoopHead(UsersSnapshot, 1)]
    /\ log' = log \cup RangeErrors(t, UsersSnapshot, 1)
    /\ UNCHANGED <<clock, alive, userDocs, reminders, started, sends, evals, failures>>
    /\ UNCHANGED cmdVars

UsersGetFail_fatal(t) ==
    /\ alive
    /\ tick[t].pc = "listing"
    /\ log' = log \cup {CronError(t, "users", Null)}
    /\ tick' = [tick EXCEPT ![t] = Caught(0)]
    /\ alive' = FALSE
    /\ failures < MaxFailures
    /\ failures' = failures + 1
    /\ UNCHANGED <<clock, userDocs, reminders, started, sends, evals>>
    /\ UNCHANGED cmdVars

\* the users listing rejects: catch (e) logs and the callback returns
UsersGetFail(t) ==
    /\ alive
    /\ tick[t].pc = "listing"
    /\ log' = log \cup {CronError(t, "users", Null)}
    /\ tick' = [tick EXCEPT ![t] = Caught(0)]
    /\ failures < MaxFailures
    /\ failures' = failures + 1
    /\ UNCHANGED <<clock, alive, userDocs, reminders, started, sends, evals>>
    /\ UNCHANGED cmdVars

RemindersGetOk_deleteFired(t) ==
    /\ alive
    /\ tick[t].pc = "reading"
    /\ LET me == tick[t]
           u == me.docs[me.idx].id
           rems == DocsInOrder(reminders[u])
           calls == ForEach(t, u, rems, me.userTimeString, me.userDay)
       IN  /\ sends' = sends \cup calls
           /\ reminders' = [reminders EXCEPT
                  ![u] = { r \in @ : \A s \in calls : s.rem # r.id }]
           /\ evals' = evals \cup {[tick |-> t, user |-> u, now |-> me.now,
                                     userTz |-> me.userTz,
                                     userTimeString |-> me.userTimeString,
                                     userDay |-> me.userDay, rems |-> reminders[u]]}
           /\ tick' = [tick EXCEPT ![t] = LoopHead(me.docs, me.idx + 1)]
           /\ log' = log \cup RangeErrors(t, me.docs, me.idx + 1)
    /\ UNCHANGED <<clock, alive, userDocs, started, failures>>
    /\ UNCHANGED cmdVars

RemindersGetOk_cachedSnapshot(t) ==
    /\ alive
    /\ tick[t].pc = "reading"
    /\ LET me == tick[t]
           u == me.docs[me.idx].id
           cached == UNION { e.rems : e \in { x \in evals : x.user = u } }
           rems == DocsInOrder(reminders[u] \cup cached)
       IN  /\ sends' = sends \cup ForEach(t, u, rems, me.userTimeString, me.userDay)
           /\ evals' = evals \cup {[tick |-> t, user |-> u, now |-> me.now,
                                     userTz |-> me.userTz,
                                     userTimeString |-> me.userTimeString,
                                     userDay |-> me.userDay, rems |-> reminders[u]]}
           /\ tick' = [tick EXCEPT ![t] = LoopHead(me.docs, me.idx + 1)]
           /\ log' = log \cup RangeErrors(t, me.docs, me.idx + 1)
    /\ UNCHANGED <<clock, alive, userDocs, reminders, started, failures>>
    /\ UNCHANGED cmdVars

\* one user's reminders read resolves: forEach starts the sends, the loop goes on
RemindersGetOk(t) ==
    /\ alive
    /\ tick[t].pc = "reading"
    /\ LET me == tick[t]
           u == me.docs[me.idx].id
           rems == DocsInOrder(reminders[u])
       IN  /\ sends' = sends \cup ForEach(t, u, rems, me.userTimeString, me.userDay)
           /\ evals' = evals \cup {[tick |-> t, user |-> u, now |-> me.now,
                                     userTz |-> me.userTz,
                                     userTimeString |-> me.userTimeString,
                                     userDay |-> me.userDay, rems |-> reminders[u]]}
           /\ tick' = [tick EXCEPT ![t] = LoopHead(me.docs, me.idx + 1)]
           /\ log' = log \cup RangeErrors(t, me.docs, me.idx + 1)
    /\ UNCHANGED <<clock, alive, userDocs, reminders, started, failures>>
    /\ UNCHANGED cmdVars

\* one user's reminders read rejects: catch (e) logs and the callback returns
RemindersGetFail(t) ==
    /\ alive
    /\ tick[t].pc = "reading"
    /\ log' = log \cup {CronError(t, "reminders", tick[t].docs[tick[t].idx].id)}
    /\ tick' = [tick EXCEPT ![t] = Caught(tick[t].idx)]
    /\ failures < MaxFailures
    /\ failures' = failures + 1
    /\ UNCHANGED <<clock, alive, userDocs, reminders, started, sends, evals>>
    /\ UNCHANGED cmdVars

\* a postMessage call resolves
PostMessageOk(s) ==
    /\ alive
    /\ s.status = "inflight"
    /\ sends' = (sends \ {s}) \cup {[s EXCEPT !.status = "ok"]}
    /\ UNCHANGED <<clock, alive, userDocs, reminders, tick, started, evals, log, failures>>
    /\ UNCHANGED cmdVars

\* a postMessage call rejects inside the async forEach callback. Nothing awaits
\* that callback's promise, so no catch sees the rejection: node ends the
\* process (--unhandled-rejections=throw, the default) or only warns (=warn).
PostMessageFail(s) ==
    /\ alive
    /\ s.status = "inflight"
    /\ sends' = (sends \ {s}) \cup {[s EXCEPT !.status = "failed"]}
    /\ alive' \in BOOLEAN
    /\ failures < MaxFailures
    /\ failures' = failures + 1
    /\ UNCHANGED <<clock, userDocs, reminders, tick, started, evals, log>>
    /\ UNCHANGED cmdVars

Next ==
    \/ CronFire
    \/ \E t \in TickIds : UsersGetOk(t)
    \/ \E t \in TickIds : UsersGetFail(t)
    \/ \E t \in TickIds : RemindersGetOk(t)
    \/ \E t \in TickIds : RemindersGetFail(t)
    \/ \E s \in sends : PostMessageOk(s)
    \/ \E s \in sends : PostMessageFail(s)

Spec == Init /\ [][Next]_vars

\* The same program started a minute earlier, so that the second cron firing
\* is the one on time and a slow first tick reads its instants in that minute.
\* Every user has at most one reminder here: what is studied is the same
\* reminder met by several ticks.
EarlyInstants == { i - 1 : i \in StartInstants }

InitEarly ==
    /\ clock \in EarlyInstants
    /\ alive = TRUE
    /\ userDocs \in [Users -> {[exists |-> FALSE, timezone |-> Null]}
                              \cup [exists : {TRUE}, timezone : StoredZones]]
    /\ \E ids \in [Users -> SUBSET DOMAIN ReminderForms] :
          /\ Cardinality(ids[UserOrder[1]]) + Cardinality(ids[UserOrder[2]]) <= MaxRems
          /\ \A u \in Users : Cardinality(ids[u]) <= 1
          /\ reminders = [u \in Users |-> Collection(ids[u])]
    /\ tick = [t \in TickIds |-> Idle]
    /\ started = 0
    /\ sends = {}
    /\ evals = {}
    /\ log = {}
    /\ failures = 0
    /\ NoCommands

SpecEarly == InitEarly /\ [][Next]_vars

\* The same program over a store in which some user document holds a timezone
\* that is no zone name
BadZone == "Mars/Phobos"

InitBadTz ==
    /\ clock \in StartInstants
    /\ alive = TRUE
    /\ userDocs \in [Users -> {[exists |-> FALSE, timezone |-> Null]}
                              \cup [exists : {TRUE}, timezone : StoredZones \cup {BadZone}]]
    /\ \E u \in Users : userDocs[u].timezone = BadZone
    /\ \E ids \in [Users -> SUBSET DOMAIN ReminderForms] :
          /\ Cardinality(ids[UserOrder[1]]) + Cardinality(ids[UserOrder[2]]) <= MaxRems
          /\ reminders = [u \in Users |-> Collection(ids[u])]
    /\ tick = [t \in TickIds |-> Idle]
    /\ started = 0
    /\ sends = {}
    /\ evals = {}
    /\ log = {}
    /\ failures = 0
    /\ NoCommands

SpecBadTz == InitBadTz /\ [][Next]_vars

\* ------------------------------------------------------ command handlers
\* app.js holds two programs one after the other, each with its own imports,
\* store handle and slackApp: the first (lines 1-257: /task, /tasks, /save,
\* /find, /habit, /park, /review, /focus, complete_task, log_focus_done,
\* park_to_task) and the second (lines 258-590: the sweep, /task with
\* add_task_view, /tasks, /reminds with setup_reminder_view, /reminders, /save,
\* /find, /habit, /park, /review, /focus, remove_item). A behaviour runs one of
\* them. Of a document only the id and the text are kept; commands that write
\* nothing and post no button (/help, /find, /focus, the /task form) are left out.
\* What the handlers take from Slack. An unselected optional select is Null.
Frequencies == {"daily", "weekly"}
DaySelections == {Null, "Monday"}
ReminderText == "standup"
SelectedTime == "20:00"
ItemText == "buy milk"
IdeaText == "learn TLA+"
\* users.info: the tz of the user's Slack profile, Null when it has none
ProfileTz == [u \in Users |-> IF u = UserOrder[1] THEN "America/New_York" ELSE Null]

\* ack(), and ack({response_action: "errors", errors: {day_block: ...}})
AckOk == [response_action |-> "ok", errors |-> Null]
AckErrors == [response_action |-> "errors", errors |-> "day_block"]

getUserCol_shared(userId, type) == [user |-> UserOrder[1], col |-> type]
\* getUserCol(userId, type): the path artifacts/{appId}/users/{userId}/{type}
getUserCol(userId, type) == [user |-> userId, col |-> type]

\* The store the handlers work on, and a collection of it
Store == [reminders |-> reminders, cols |-> cols]
Get(st, c) == IF c.col = "reminders" THEN st.reminders[c.user] ELSE st.cols[c.user][c.col]
Put(st, c, S) ==
    IF c.col = "reminders" THEN [st EXCEPT !.reminders[c.user] = S]
    ELSE [st EXCEPT !.cols[c.user][c.col] = S]
\* collection.add(data), with the id Firestore draws
Add(st, c, data) == Put(st, c, Get(st, c) \cup {data})
\* collection.doc(id).delete(): nothing happens when there is no such document
Delete(st, c, id) == Put(st, c, { d \in Get(st, c) : d.id # id })

Item(text) == [id |-> nextId, text |-> text]

\* The commit of a handler's writes
Commit(st) == reminders' = st.reminders /\ cols' = st.cols

\* The buttons a listing of collection type posts to user u
Listing(u, action_id, type) ==
    { [user |-> u, action_id |-> action_id, col |-> type, id |-> d.id, label |-> d.text] :
        d \in Get(Store, getUserCol(u, type)) }

\* /reminds, every await of which can reject into catch (error). ok: users.info
\* resolves and set() with it (WebClient rejects a response that is not ok);
\* opened: the reads before views.open and views.open itself resolve.
cmd_reminds_openAnyway(u, ok, opened) ==
    LET missing == ~userDocs[u].exists \/ userDocs[u].timezone = Null
    IN  /\ userDocs' =
              IF missing /\ ok
              THEN [userDocs EXCEPT ![u] =
                      [exists |-> TRUE,
                       timezone |-> IF ProfileTz[u] = Null THEN "UTC" ELSE ProfileTz[u]]]
              ELSE userDocs
        /\ views' = IF opened THEN views \cup {u} ELSE views
        /\ ack' = AckOk
        /\ UNCHANGED <<reminders, cols, buttons, nextId>>
        /\ UNCHANGED <<version, sweepVars>>
\* /reminds: store the profile's timezone when the user has none, then open
\* the reminder form
cmd_reminds(u, ok, opened) ==
    LET missing == ~userDocs[u].exists \/ userDocs[u].timezone = Null
        thrown == missing /\ ~ok
    IN  /\ userDocs' =
              IF missing /\ ok
              THEN [userDocs EXCEPT ![u] =
                      [exists |-> TRUE,
                       timezone |-> IF ProfileTz[u] = Null THEN "UTC" ELSE ProfileTz[u]]]
              ELSE userDocs
        /\ views' = IF ~thrown /\ opened THEN views \cup {u} ELSE views
        /\ ack' = AckOk
        /\ UNCHANGED <<reminders, cols, buttons, nextId>>
        /\ UNCHANGED <<version, sweepVars>>

view_setup_reminder_noCheck(u, frequency, day) ==
    /\ u \in views
    /\ nextId <= MaxDocs
    /\ ack' = AckOk
    /\ Commit(Add(Store, getUserCol(u, "reminders"),
                  [id |-> nextId, text |-> ReminderText, frequency |-> frequency,
                   day |-> day, time |-> SelectedTime]))
    /\ nextId' = nextId + 1
    /\ UNCHANGED <<userDocs, buttons>>
    /\ UNCHANGED <<version, views, sweepVars>>
\* the submission of the reminder form, by a user /reminds has opened it for
view_setup_reminder(u, frequency, day) ==
    /\ u \in views
    /\ IF frequency = "weekly" /\ day = Null
       THEN /\ ack' = AckErrors
            /\ UNCHANGED <<userDocs, reminders, cols, buttons, nextId>>
            /\ UNCHANGED <<version, views, sweepVars>>
       ELSE /\ nextId <= MaxDocs
            /\ ack' = AckOk
            /\ Commit(Add(Store, getUserCol(u, "reminders"),
                          [id |-> nextId, text |-> ReminderText, frequency |-> frequency,
                           day |-> day, time |-> SelectedTime]))
            /\ nextId' = nextId + 1
            /\ UNCHANGED <<userDocs, buttons>>
            /\ UNCHANGED <<version, views, sweepVars>>

\* a command or form that adds one document to a collection of the invoker:
\* add_task_view (tasks), /save (vault), /habit (habits), /park (parking_lot),
\* log_focus_done (logs)
AddItem(u, type, text) ==
    /\ nextId <= MaxDocs
    /\ ack' = AckOk
    /\ Commit(Add(Store, getUserCol(u, type), Item(text)))
    /\ nextId' = nextId + 1
    /\ UNCHANGED <<userDocs, buttons>>
    /\ UNCHANGED <<version, views, sweepVars>>
view_add_task(u) == AddItem(u, "tasks", ItemText)
cmd_task(u) == AddItem(u, "tasks", ItemText)
cmd_save(u) == AddItem(u, "vault", ItemText)
cmd_habit(u) == AddItem(u, "habits", ItemText)
cmd_park(u) == AddItem(u, "parking_lot", IdeaText)
action_log_focus_done(u) == AddItem(u, "logs", ItemText)

\* a command that lists a collection of the invoker with one button per
\* document: /tasks, /reminders, /review
ListItems(u, action_id, type) ==
    /\ buttons' = buttons \cup Listing(u, action_id, type)
    /\ ack' = AckOk
    /\ UNCHANGED <<userDocs, reminders, cols, nextId>>
    /\ UNCHANGED <<version, views, sweepVars>>
cmd_tasks(u) == ListItems(u, "remove_item", "tasks")
cmd_tasks_done(u) == ListItems(u, "complete_task", "tasks")
cmd_reminders(u) == ListItems(u, "remove_item", "reminders")
cmd_review(u) == ListItems(u, "remove_item", "parking_lot")
cmd_review_toTask(u) == ListItems(u, "park_to_task", "parking_lot")

\* remove_item: delete the document the button names, from the presser's
\* collection of the type the button names
action_remove_item(b) ==
    /\ b.action_id = "remove_item"
    /\ ack' = AckOk
    /\ Commit(Delete(Store, getUserCol(b.user, b.col), b.id))
    /\ UNCHANGED <<userDocs, buttons, nextId>>
    /\ UNCHANGED <<version, views, sweepVars>>

\* complete_task: delete the task, add a log entry
action_complete_task(b) ==
    /\ b.action_id = "complete_task"
    /\ nextId <= MaxDocs
    /\ ack' = AckOk
    /\ Commit(Add(Delete(Store, getUserCol(b.user, "tasks"), b.id),
                  getUserCol(b.user, "logs"), Item("Done: " \o b.label)))
    /\ nextId' = nextId + 1
    /\ UNCHANGED <<userDocs, buttons>>
    /\ UNCHANGED <<version, views, sweepVars>>

\* park_to_task: delete the idea, then add a task with its text. Each of the
\* two awaited writes can reject (deleted, added say they did not), and the
\* handler ends there; delete() of a document that is gone resolves.
action_park_to_task(b, deleted, added) ==
    /\ b.action_id = "park_to_task"
    /\ ack' = AckOk
    /\ IF deleted /\ added
       THEN /\ nextId <= MaxDocs
            /\ Commit(Add(Delete(Store, getUserCol(b.user, "parking_lot"), b.id),
                          getUserCol(b.user, "tasks"), Item(b.label)))
            /\ nextId' = nextId + 1
       ELSE IF deleted
       THEN /\ Commit(Delete(Store, getUserCol(b.user, "parking_lot"), b.id))
            /\ UNCHANGED nextId
       ELSE UNCHANGED <<reminders, cols, nextId>>
    /\ UNCHANGED <<userDocs, buttons>>
    /\ UNCHANGED <<version, views, sweepVars>>

InitCmd ==
    /\ clock = MinutesPerDay
    /\ alive = TRUE
    /\ userDocs = [u \in Users |-> [exists |-> FALSE, timezone |-> Null]]
    /\ reminders = [u \in Users |-> {}]
    /\ tick = [t \in TickIds |-> Idle]
    /\ started = 0
    /\ sends = {}
    /\ evals = {}
    /\ log = {}
    /\ failures = 0
    /\ cols = [u \in Users |-> [c \in ColNames |-> {}]]
    /\ buttons = {}
    /\ nextId = 1
    /\ ack = NoAck
    /\ version \in {1, 2}
    /\ views = {}

\* The requests Slack can deliver from user u: u's commands and forms, and
\* presses of buttons that were posted to u
Handlers(u) ==
    \/ version = 2 /\ \E ok, opened \in BOOLEAN : cmd_reminds(u, ok, opened)
    \/ version = 2 /\ \E f \in Frequencies : \E d \in DaySelections :
                          view_setup_reminder(u, f, d)
    \/ version = 2 /\ view_add_task(u)
    \/ version = 2 /\ cmd_tasks(u)
    \/ version = 2 /\ cmd_reminders(u)
    \/ version = 2 /\ cmd_review(u)
    \/ version = 2 /\ \E b \in buttons : b.user = u /\ action_remove_item(b)
    \/ cmd_save(u)
    \/ cmd_habit(u)
    \/ cmd_park(u)
    \/ version = 1 /\ cmd_task(u)
    \/ version = 1 /\ cmd_tasks_done(u)
    \/ version = 1 /\ cmd_review_toTask(u)
    \/ version = 1 /\ action_log_focus_done(u)
    \/ version = 1 /\ \E b \in buttons : b.user = u /\ action_complete_task(b)
    \/ version = 1 /\ \E b \in buttons : \E deleted, added \in BOOLEAN :
                          b.user = u /\ action_park_to_task(b, deleted, added)

NextCmd == \E u \in Users : Handlers(u)

SpecCmd == InitCmd /\ [][NextCmd]_vars

\* ------------------------------------- the sweep while reminders are edited
\* One user has run /reminds, so has a user document, and has no reminder yet;
\* it is two minutes before the time the reminder form stores. That user adds
\* reminders, lists them and removes them while the ticks run.
InitSnap ==
    /\ clock = MinutesPerDay - 2
    /\ alive = TRUE
    /\ userDocs = [u \in Users |->
                     IF u = UserOrder[1] THEN [exists |-> TRUE, timezone |-> ProfileTz[u]]
                     ELSE [exists |-> FALSE, timezone |-> Null]]
    /\ reminders = [u \in Users |-> {}]
    /\ tick = [t \in TickIds |-> Idle]
    /\ started = 0
    /\ sends = {}
    /\ evals = {}
    /\ log = {}
    /\ failures = 0
    /\ cols = [u \in Users |-> [c \in ColNames |-> {}]]
    /\ buttons = {}
    /\ nextId = 1
    /\ ack = AckOk
    /\ version = 2
    /\ views = {UserOrder[1]}

NextSnap ==
    \/ Next
    \/ \E u \in Users : view_setup_reminder(u, "daily", Null)
    \/ \E u \in views : cmd_reminders(u)
    \/ \E b \in buttons : action_remove_item(b)

SpecSnap == InitSnap /\ [][NextSnap]_vars

\* ------------------------------------- the sweep while users run /reminds
\* No user has a document yet. Users run /reminds and submit the form it
\* opens while the ticks run, in minutes in which no reminder is due, so that
\* no tick makes a postMessage call.
InitReminds ==
    /\ clock = MinutesPerDay
    /\ alive = TRUE
    /\ userDocs = [u \in Users |-> [exists |-> FALSE, timezone |-> Null]]
    /\ reminders = [u \in Users |-> {}]
    /\ tick = [t \in TickIds |-> Idle]
    /\ started = 0
    /\ sends = {}
    /\ evals = {}
    /\ log = {}
    /\ failures = 0
    /\ NoCommands

NextReminds ==
    \/ CronFire
    \/ \E t \in TickIds : UsersGetOk(t)
    \/ \E t \in TickIds : UsersGetFail(t)
    \/ \E t \in TickIds : RemindersGetOk(t)
    \/ \E t \in TickIds : RemindersGetFail(t)
    \/ \E u \in Users : \E ok, opened \in BOOLEAN : cmd_reminds(u, ok, opened)
    \/ \E u \in Users : view_setup_reminder(u, "daily", Null)

SpecReminds == InitReminds /\ [][NextReminds]_vars

\* ------------------------------------------- one tick in two iteration orders
\* The callback run twice over the same store and the same course of time:
\* run 1 visits the listed users in the store's order, run 2 in the reverse
\* order, and the i-th awaited read of both resolves at the same instant.
RECURSIVE Reverse(_)
Reverse(seq) == IF seq = <<>> THEN <<>> ELSE Reverse(Tail(seq)) \o <<Head(seq)>>

\* the users listing resolves in both runs
OrderUsersGet ==
    /\ tick[1].pc = "listing" /\ tick[2].pc = "listing"
    /\ tick' = [tick EXCEPT ![1] = LoopHead(UsersSnapshot, 1),
                            ![2] = LoopHead(Reverse(UsersSnapshot), 1)]
    /\ log' = log \cup RangeErrors(1, UsersSnapshot, 1)
                    \cup RangeErrors(2, Reverse(UsersSnapshot), 1)
    /\ UNCHANGED <<clock, alive, userDocs, reminders, started, sends, evals, failures>>
    /\ UNCHANGED cmdVars

\* what a resolved reminders read adds for run t: the calls and the record of
\* the evaluation
CallsOf(t) ==
    LET me == tick[t]
        u == me.docs[me.idx].id
    IN  ForEach(t, u, DocsInOrder(reminders[u]), me.userTimeString, me.userDay)
EvalOf(t) ==
    LET me == tick[t]
        u == me.docs[me.idx].id
    IN  [tick |-> t, user |-> u, now |-> me.now, userTz |-> me.userTz,
         userTimeString |-> me.userTimeString, userDay |-> me.userDay,
         rems |-> reminders[u]]

\* the awaited reminders read resolves in both runs
OrderRemindersGet ==
    /\ tick[1].pc = "reading" /\ tick[2].pc = "reading"
    /\ sends' = sends \cup CallsOf(1) \cup CallsOf(2)
    /\ evals' = evals \cup {EvalOf(1), EvalOf(2)}
    /\ tick' = [tick EXCEPT ![1] = LoopHead(tick[1].docs, tick[1].idx + 1),
                            ![2] = LoopHead(tick[2].docs, tick[2].idx + 1)]
    /\ log' = log \cup RangeErrors(1, tick[1].docs, tick[1].idx + 1)
                    \cup RangeErrors(2, tick[2].docs, tick[2].idx + 1)
    /\ UNCHANGED <<clock, alive, userDocs, reminders, started, failures>>
    /\ UNCHANGED cmdVars

\* a minute boundary passes while the reads are awaited (started counts them)
MinutePasses ==
    /\ started < MaxTicks
    /\ clock' = clock + 1
    /\ started' = started + 1
    /\ UNCHANGED <<alive, userDocs, reminders, tick, sends, evals, log, failures>>
    /\ UNCHANGED cmdVars

\* cron has just fired both runs, in a minute reminders are due
InitOrder ==
    /\ clock \in { i + 1 : i \in StartInstants }
    /\ alive = TRUE
    /\ userDocs \in [Users -> {[exists |-> FALSE, timezone |-> Null]}
                              \cup [exists : {TRUE}, timezone : StoredZones]]
    /\ \E ids \in [Users -> SUBSET DOMAIN ReminderForms] :
          /\ Cardinality(ids[UserOrder[1]]) + Cardinality(ids[UserOrder[2]]) <= MaxRems
          /\ reminders = [u \in Users |-> Collection(ids[u])]
    /\ tick = [t \in TickIds |-> IF t <= 2 THEN [Idle EXCEPT !.pc = "listing"] ELSE Idle]
    /\ started = 0
    /\ sends = {}
    /\ evals = {}
    /\ log = {}
    /\ failures = 0
    /\ NoCommands

NextOrder == OrderUsersGet \/ OrderRemindersGet \/ MinutePasses

SpecOrder == InitOrder /\ [][NextOrder]_vars

TypeOK ==
    /\ alive \in BOOLEAN
    /\ started \in 0..MaxTicks
    /\ \A t \in TickIds : tick[t].pc \in {"idle", "listing", "reading", "done", "caught"}

\* ------------------------------------------------------------ properties
\* The match condition of a reminder against a local time and weekday
Match(r, localTime, localDay) ==
    \/ (r.frequency = "daily" /\ r.time = localTime)
    \/ (r.frequency = "weekly" /\ r.day = localDay /\ r.time = localTime)

\* The postMessage calls tick t made for reminder id of user u
Calls(t, u, id) == { s \in sends : s.tick = t /\ s.user = u /\ s.rem = id }

\* C1: a daily reminder of an evaluated user is notified by the tick iff the
\* HH:MM computed for the user in that tick equals its time, whatever its day.
C1_DailyIffTime ==
    \A e \in evals : \A r \in e.rems :
        r.frequency = "daily" =>
            ((Calls(e.tick, e.user, r.id) # {}) <=> (r.time = e.userTimeString))

\* a daily reminder carrying a weekday other than the user's local one is notified
C1_Witness ==
    \E e \in evals : \E r \in e.rems :
        /\ r.frequency = "daily"
        /\ r.day # Null /\ r.day # e.userDay
        /\ Calls(e.tick, e.user, r.id) # {}

\* C2: a weekly reminder of an evaluated user is notified by the tick iff the
\* weekday computed for the user equals its day and the HH:MM computed equals
\* its time.
C2_WeeklyIffDayAndTime ==
    \A e \in evals : \A r \in e.rems :
        r.frequency = "weekly" =>
            ((Calls(e.tick, e.user, r.id) # {})
                <=> (r.day = e.userDay /\ r.time = e.userTimeString))

\* a weekly reminder is notified on its weekday at its time
C2_Witness ==
    \E e \in evals : \E r \in e.rems :
        /\ r.frequency = "weekly"
        /\ r.day = e.userDay /\ r.time = e.userTimeString
        /\ Calls(e.tick, e.user, r.id) # {}

\* C3: a tick evaluates a user at most once; for every reminder it read for
\* the user it makes exactly one postMessage call if the match condition
\* holds and none if not; and it makes no call for anything else.
C3_OneCallPerMatch ==
    /\ \A e1, e2 \in evals : (e1.tick = e2.tick /\ e1.user = e2.user) => e1 = e2
    /\ \A e \in evals : \A r \in e.rems :
          Cardinality(Calls(e.tick, e.user, r.id))
              = IF Match(r, e.userTimeString, e.userDay) THEN 1 ELSE 0
    /\ \A s \in sends : \E e \in evals :
          /\ e.tick = s.tick /\ e.user = s.user
          /\ \E r \in e.rems : r.id = s.rem

\* one tick notified two matching reminders of one user, once each
C3_Witness ==
    \E e \in evals : \E r1, r2 \in e.rems :
        /\ r1.id # r2.id
        /\ Cardinality(Calls(e.tick, e.user, r1.id)) = 1
        /\ Cardinality(Calls(e.tick, e.user, r2.id)) = 1

\* C4: in a step in which a tick's read of user A's reminders fails, every
\* other listed user B has B's matching reminders notified by that tick: those
\* that matched when the tick evaluated B, or, if the tick ends without having
\* evaluated B, those matching at the instant the tick had read for A.
C4_ReadFailureSkipsOnlyThatUser ==
    [][ \A t \in TickIds :
          (tick[t].pc = "reading" /\ tick'[t].pc = "caught") =>
              LET me == tick[t]
              IN  \A j \in (1..Len(me.docs)) \ {me.idx} :
                     LET B == me.docs[j].id
                         tz == UserTz(me.docs[j])
                         E == { e \in evals : e.tick = t /\ e.user = B }
                     IN  IF E # {}
                         THEN \A e \in E : \A r \in e.rems :
                                 Match(r, e.userTimeString, e.userDay)
                                     => Calls(t, B, r.id)' # {}
                         ELSE \A r \in reminders[B] :
                                 Match(r, toLocaleTimeString(me.now, tz),
                                          toLocaleDateString(me.now, tz))
                                     => Calls(t, B, r.id)' # {} ]_vars

\* C5: when a send of a tick has failed while the tick has computed the local
\* time of a user and awaits that user's reminders, the sweep goes on, so no
\* matching reminder of that user is lost: the process runs, or the user has
\* no matching reminder.
C5_SendFailureDoesNotAbort ==
    \A s \in sends : s.status = "failed" =>
        LET me == tick[s.tick]
        IN  me.pc = "reading" =>
                \/ alive
                \/ \A r \in reminders[me.docs[me.idx].id] :
                      ~Match(r, me.userTimeString, me.userDay)

\* C6: every failed send is logged by the scheduler and is not sent again in
\* its tick.
C6_FailedSendLoggedNotRetried ==
    \A s \in sends : s.status = "failed" =>
        /\ \E l \in log : l.tick = s.tick /\ l.at = "postMessage"
                          /\ l.user = s.user /\ l.rem = s.rem
        /\ Cardinality(Calls(s.tick, s.user, s.rem)) = 1

\* C7: after a failed users listing, a failed reminders read or a failed send
\* the process is still running.
C7_FailuresAreNotFatal ==
    (log # {} \/ \E s \in sends : s.status = "failed") => alive

\* C8: a step in which a tick's users listing fails logs the failure, ends
\* that tick with no send and no evaluation made for it, and changes nothing
\* else: not the store, not the sends, not the clock, not the process, and not
\* any other tick.
C8_ListingFailureStep ==
    [][ \A t \in TickIds :
          (tick[t].pc = "listing" /\ tick'[t].pc = "caught") =>
              /\ log' = log \cup {[tick |-> t, at |-> "users", user |-> Null, rem |-> 0]}
              /\ tick'[t] = Caught(0)
              /\ { s \in sends' : s.tick = t } = {}
              /\ { e \in evals' : e.tick = t } = {}
              /\ UNCHANGED <<userDocs, reminders, sends, evals, clock, started>>
              /\ alive'
              /\ \A t2 \in TickIds \ {t} : tick'[t2] = tick[t2] ]_vars

\* a tick's users listing failed, and the next tick has run to its end and
\* evaluated every listed user
C8_Witness ==
    \E t \in TickIds :
        /\ tick[t] = Caught(0)
        /\ t + 1 \in TickIds
        /\ tick[t + 1].pc = "done"
        /\ \E u \in Users : userDocs[u].exists
        /\ \A u \in Users : userDocs[u].exists =>
              \E e \in evals : e.tick = t + 1 /\ e.user = u

\* C9: all evaluations of one tick use one instant.
C9_OneNowPerTick ==
    \A e1, e2 \in evals : e1.tick = e2.tick => e1.now = e2.now

\* C10: the HH:MM and the weekday used for a user are those of one instant in
\* one zone: the instant read for that user and the user's zone.
C10_SameInstantSameZone ==
    /\ \A e \in evals :
          /\ e.userTz = UserTz(userDocs[e.user])
          /\ e.userTimeString = toLocaleTimeString(e.now, e.userTz)
          /\ e.userDay = toLocaleDateString(e.now, e.userTz)
    /\ \A t \in TickIds : tick[t].pc = "reading" =>
          /\ tick[t].userTimeString = toLocaleTimeString(tick[t].now, tick[t].userTz)
          /\ tick[t].userDay = toLocaleDateString(tick[t].now, tick[t].userTz)

\* a weekly reminder is notified on the user's local weekday at an instant
\* whose UTC weekday is another
C10_Witness ==
    \E e \in evals : \E r \in e.rems :
        /\ toLocaleDateString(e.now, "UTC") # e.userDay
        /\ r.frequency = "weekly"
        /\ Calls(e.tick, e.user, r.id) # {}

\* C11: a user whose document has no timezone is evaluated in UTC, and a daily
\* reminder of that user is notified iff its time is the UTC HH:MM of the
\* instant used; a user with a stored timezone is evaluated in that zone.
C11_DefaultUTC ==
    \A e \in evals :
        LET stored == userDocs[e.user].timezone
            zone == IF stored = Null THEN "UTC" ELSE stored
        IN  /\ e.userTz = zone
            /\ \A r \in e.rems : r.frequency = "daily" =>
                  ((Calls(e.tick, e.user, r.id) # {})
                      <=> (r.time = toLocaleTimeString(e.now, zone)))

\* at one instant, 20:00 in UTC, a tick notified the 20:00 daily reminder of a
\* user without timezone and not the one of a user in New York
C11_Witness ==
    \E e1, e2 \in evals : \E r1 \in e1.rems : \E r2 \in e2.rems :
        /\ e1.tick = e2.tick /\ e1.now = e2.now
        /\ toLocaleTimeString(e1.now, "UTC") = "20:00"
        /\ userDocs[e1.user].timezone = Null
        /\ userDocs[e2.user].timezone = "America/New_York"
        /\ r1.frequency = "daily" /\ r1.time = "20:00"
        /\ r2.frequency = "daily" /\ r2.time = "20:00"
        /\ Calls(e1.tick, e1.user, r1.id) # {}
        /\ Calls(e2.tick, e2.user, r2.id) = {}

\* C12: no step of the sweep changes the store: the user documents, every
\* user's reminders collection and every other collection stay as they are.
C12_SweepLeavesStore ==
    [][ userDocs' = userDocs /\ reminders' = reminders /\ cols' = cols ]_vars

\* the sweep has delivered a notification and has logged a failed read, and
\* all its ticks have returned
C12_Witness ==
    /\ started = MaxTicks
    /\ \A t \in TickIds : tick[t].pc \in {"done", "caught"}
    /\ \E s \in sends : s.status = "ok"
    /\ log # {}

\* C13: every postMessage call of a tick is made for a reminder the tick read
\* from the collection of the user the call is addressed to, that collection
\* holds it, and the call's text is built from that reminder's text.
C13_AddressedToOwner ==
    \A s \in sends :
        /\ \E e \in evals :
              /\ e.tick = s.tick /\ e.user = s.user
              /\ \E r \in e.rems : r.id = s.rem /\ s.text = MessageText(r)
        /\ \E r \in reminders[s.user] : r.id = s.rem /\ s.text = MessageText(r)

\* a tick that evaluated two users notified a reminder that only the second
\* listed user has, to that user
C13_Witness ==
    \E s \in sends : \E e \in evals :
        /\ s.user = UserOrder[2]
        /\ e.tick = s.tick /\ e.user = UserOrder[1]
        /\ \A r \in reminders[UserOrder[1]] : r.id # s.rem

\* A tick is running: its callback has not returned
Running(t) == tick[t].pc \in {"listing", "reading"}

\* C14: at most one tick is running at a time.
C14_NoOverlappingTicks ==
    \A t1, t2 \in TickIds : (Running(t1) /\ Running(t2)) => t1 = t2

\* The minute in which cron fired tick t (t <= started)
FiredAt(t) == clock - started + t

\* C15: a notification is made only for an occurrence of the current minute:
\* the reminder matches at the instant the tick read for the user, in the
\* user's zone, and the tick was fired no later than that minute. So a tick
\* fired after a matching minute never notifies that minute's occurrence.
C15_NoCatchUp ==
    \A e \in evals : \A r \in e.rems :
        Calls(e.tick, e.user, r.id) # {} =>
            LET zone == UserTz(userDocs[e.user])
            IN  /\ Match(r, toLocaleTimeString(e.now, zone), toLocaleDateString(e.now, zone))
                /\ FiredAt(e.tick) <= e.now
                /\ e.now <= clock

\* a reminder matched in the minute of the first tick, that tick read the time
\* for the user only a minute later, and no tick has notified the reminder
C15_Witness ==
    \E u \in Users : \E r \in reminders[u] :
        LET zone == UserTz(userDocs[u])
            M == FiredAt(1)
        IN  /\ started = MaxTicks
            /\ \A t \in TickIds : tick[t].pc = "done"
            /\ Match(r, toLocaleTimeString(M, zone), toLocaleDateString(M, zone))
            /\ \A t \in TickIds : \E e \in evals : e.tick = t /\ e.user = u /\ e.now > M
            /\ \A t \in TickIds : Calls(t, u, r.id) = {}

\* C16: nothing of an earlier notification is remembered: two ticks that
\* evaluate one user at instants of the same minute decide alike for every
\* reminder both have read, so a reminder notified by one is notified by the
\* other too.
C16_NoLastFiredState ==
    \A e1, e2 \in evals :
        (e1.user = e2.user /\ e1.now = e2.now) =>
            \A r \in e1.rems \cap e2.rems :
                (Calls(e1.tick, e1.user, r.id) # {}) <=> (Calls(e2.tick, e2.user, r.id) # {})

\* two ticks have each notified the same reminder of the same user for the
\* same minute
C16_Witness ==
    \E e1, e2 \in evals : \E r \in e1.rems \cap e2.rems :
        /\ e1.tick # e2.tick
        /\ e1.user = e2.user /\ e1.now = e2.now
        /\ Calls(e1.tick, e1.user, r.id) # {}
        /\ Calls(e2.tick, e2.user, r.id) # {}

\* C17: every weekly reminder in the store has a day, and a step in which the
\* reminder form is answered with the form error writes nothing to the store.
C17_WeeklyHasDay ==
    /\ [](\A u \in Users : \A r \in reminders[u] : r.frequency = "weekly" => r.day # Null)
    /\ [][ ack' = AckErrors =>
              (ack'.errors = "day_block" /\ UNCHANGED <<userDocs, reminders, cols, nextId>>) ]_vars

\* a weekly reminder with its day is stored, and the latest submission was
\* answered with the form error
C17_Witness ==
    /\ ack = AckErrors
    /\ \E u \in Users : \E r \in reminders[u] : r.frequency = "weekly" /\ r.day = "Monday"

\* C18: every daily reminder in the store has no day.
C18_DailyHasNoDay ==
    \A u \in Users : \A r \in reminders[u] : r.frequency = "daily" => r.day = Null

\* The records of user B
Records(B) == <<userDocs[B], reminders[B], cols[B]>>

\* What a step of a request from user u may do: it leaves the records of every
\* other user as they are, and every button it posts is posted to u and names
\* a document of u's own collection of the button's type
OwnRecordsOnly(u) ==
    /\ \A B \in Users \ {u} : Records(B)' = Records(B)
    /\ \A b \in buttons' \ buttons :
          /\ b.user = u
          /\ \E d \in Get(Store, [user |-> u, col |-> b.col]) : d.id = b.id

\* C19: a step that changes the records of another user than u, or posts a
\* button that is not for u or not for a document of u's own collections, is
\* not a step of a request from u.
C19_OwnCollectionsOnly ==
    [][ \A u \in Users : (~OwnRecordsOnly(u)) => ~Handlers(u) ]_vars

\* one user has removed a document of theirs through a remove_item button
\* while the other user holds a document
C19_Witness ==
    \E b \in buttons : \E B \in Users \ {b.user} :
        /\ b.action_id = "remove_item"
        /\ \A d \in Get(Store, [user |-> b.user, col |-> b.col]) : d.id # b.id
        /\ b.id > 1
        /\ \E c \in ColNames : cols[B][c] # {}

\* The (user, reminder) pairs run t has called postMessage for
Delivered(t) == { <<s.user, s.rem>> : s \in { x \in sends : x.tick = t } }

\* C20: when both runs of the tick, one per iteration order, have returned,
\* they have notified the same (user, reminder) pairs.
C20_OrderIndependent ==
    (tick[1].pc = "done" /\ tick[2].pc = "done") => Delivered(1) = Delivered(2)

\* The positions in the users listing whose timeZone makes toLocaleTimeString throw
BadAt == { i \in 1..Len(UsersSnapshot) : UserTz(UsersSnapshot[i]) \notin Zones }
FirstBad == CHOOSE i \in BadAt : \A j \in BadAt : i <= j
IndexOf(u) == CHOOSE i \in 1..Len(UsersSnapshot) : UsersSnapshot[i].id = u

\* C21: when the local time of a user cannot be computed, every tick ends at
\* that user: only users before it are evaluated or notified, no tick runs to
\* the end of the loop, a tick that reaches the user returns through catch
\* with the error logged, and the step that throws leaves every send that was
\* already started as it was.
C21_TickEndsAtBadZone ==
    /\ [](BadAt # {} =>
            /\ \A e \in evals : IndexOf(e.user) < FirstBad
            /\ \A s \in sends : IndexOf(s.user) < FirstBad
            /\ \A t \in TickIds :
                  /\ tick[t].pc # "done"
                  /\ tick[t].pc = "reading" => tick[t].idx < FirstBad
                  /\ tick[t].pc = "caught" => tick[t].idx <= FirstBad
                  /\ (tick[t].pc = "caught" /\ tick[t].idx = FirstBad) =>
                        CronError(t, "toLocaleTimeString", UsersSnapshot[FirstBad].id) \in log)
    /\ [][(\E e \in log' \ log : e.at = "toLocaleTimeString") => sends \subseteq sends']_vars

\* both ticks ended at the second user, whose zone is no zone name, after the
\* first tick's notification to the first user was started; it was delivered
C21_Witness ==
    /\ BadAt # {} /\ FirstBad = 2
    /\ \A t \in TickIds :
          /\ tick[t] = Caught(2)
          /\ CronError(t, "toLocaleTimeString", UsersSnapshot[2].id) \in log
    /\ \E s \in sends : s.user = UsersSnapshot[1].id /\ s.status = "ok"
    /\ \E e \in evals : e.tick = 2 /\ e.user = UsersSnapshot[1].id

\* The loop of tick t has left the iteration of user u
PastUser(t, u) ==
    \/ tick[t].pc \in {"done", "caught"}
    \/ /\ tick[t].pc = "reading"
       /\ \E j \in 1..(tick[t].idx - 1) : tick[t].docs[j].id = u

\* C22: the sweep does not wait for its sends. A postMessage call is in flight
\* when the step that starts it ends, and that step has already moved the loop
\* to the next user or out of the callback; the calls for one user are started
\* in the order of the reminders read; the outcome of a call arrives in a
\* later step, which moves no tick.
C22_SendsNotAwaited ==
    /\ [](\A s \in sends :
            /\ s.status = "inflight" => PastUser(s.tick, s.user)
            /\ \A s2 \in sends :
                  (s2.tick = s.tick /\ s2.user = s.user /\ s.k < s2.k) => s.rem < s2.rem)
    /\ [][/\ \A s \in sends' \ sends :
               \/ s.status = "inflight"
               \/ [s EXCEPT !.status = "inflight"] \in sends
          /\ (\E s \in sends' \ sends : s.status # "inflight") => tick' = tick]_vars

\* the first tick has returned while its calls for both users are in flight:
\* the call for the first user was in flight when the second user's reminders
\* were read
C22_Witness ==
    /\ tick[1].pc = "done"
    /\ \E s1, s2 \in sends :
          /\ s1.tick = 1 /\ s2.tick = 1
          /\ s1.user = UserOrder[1] /\ s2.user = UserOrder[2]
          /\ s1.status = "inflight" /\ s2.status = "inflight"

\* C23: a tick calls postMessage only for reminders that are in the user's
\* collection when the tick reads it, and only in the step of that read: every
\* call a step starts is for a document the collection holds before the step,
\* made by a tick that awaits that user's read and is past the user after the
\* step; and a document id, once given, is never given again, so a removed
\* reminder does not come back.
C23_DeliversWhatItRead ==
    /\ [](\A s \in sends : \E e \in evals :
            /\ e.tick = s.tick /\ e.user = s.user
            /\ \E r \in e.rems : r.id = s.rem)
    /\ [][/\ \A s \in sends' \ sends :
               \/ [s EXCEPT !.status = "inflight"] \in sends
               \/ /\ \E r \in reminders[s.user] : r.id = s.rem
                  /\ tick[s.tick].pc = "reading"
                  /\ tick[s.tick].docs[tick[s.tick].idx].id = s.user
                  /\ PastUser(s.tick, s.user)'
          /\ \A u \in Users : \A r \in reminders'[u] \ reminders[u] :
               r.id >= nextId /\ nextId' > r.id]_vars

\* The second tick ran in the minute the user's reminders are due and has
\* returned with no call made. One reminder was read by the first tick a
\* minute early and removed before the second tick read the collection; the
\* other was added after the second tick read the collection.
C23_Witness ==
    /\ tick[2].pc = "done"
    /\ sends = {}
    /\ \E b \in buttons : \E e1, e2 \in evals : \E added \in reminders[b.user] :
          /\ b.action_id = "remove_item" /\ b.col = "reminders"
          /\ e1.tick = 1 /\ e1.user = b.user
          /\ \E r \in e1.rems : r.id = b.id /\ r.frequency = "daily"
          /\ e2.tick = 2 /\ e2.user = b.user
          /\ e2.rems = {}
          /\ reminders[b.user] = {added}
          /\ added.frequency = "daily" /\ added.time = e2.userTimeString

\* User u is in the listing the users collection returns
Listed(u) == \E i \in 1..Len(UsersSnapshot) : UsersSnapshot[i].id = u

IdeasRemoved(u) == cols[u]["parking_lot"] \ cols'[u]["parking_lot"]
IdeaTasksAdded(u) == { k \in cols'[u]["tasks"] \ cols[u]["tasks"] : k.text = IdeaText }

\* C25: park_to_task moves an idea exactly once. In the program that has the
\* action, a step that takes an idea out of the parking lot adds a task with
\* its text (so a failed add leaves the idea parked), and a step that adds a
\* task with an idea's text takes that idea out of the parking lot (so a
\* second invocation for the same idea adds no second task).
C25_MovedExactlyOnce ==
    [][version = 1 =>
          \A u \in Users :
              /\ \A d \in IdeasRemoved(u) : \E k \in IdeaTasksAdded(u) : k.text = d.text
              /\ \A k \in IdeaTasksAdded(u) : \E d \in IdeasRemoved(u) : d.text = k.text]_vars
====
